---- MODULE Spec2Model ----
(***************************************************************************)
(* Contract-interaction client of the encrypted-file NFT front end         *)
(* (src/src/components/Blockchain/contract.ts).                            *)
(*                                                                         *)
(* The module-level Connection State (provider, signer, contract), the     *)
(* fire-and-forget initializer and every exported async function are       *)
(* modelled as cooperative coroutines: one action per run of code between  *)
(* two suspension points (await).  The wallet, the RPC transport and the   *)
(* deployed contract are the environment: each awaited promise is settled  *)
(* by an action that picks the outcome (fulfilled with a value, rejected). *)
(***************************************************************************)
EXTENDS Integers, Sequences, FiniteSets, TLC

VARIABLES hasWallet, provider, signer, contract, initPc, calls

vars == <<hasWallet, provider, signer, contract, initPc, calls>>

conn == <<hasWallet, provider, signer, contract, initPc>>

(***************************************************************************)
(* Bounds of the model.                                                    *)
(***************************************************************************)
\* Number of calls of exported functions in one behaviour.
MaxCalls == 1
\* Longest array in a contract reply and longest log list of a receipt.
MaxLen == 2

(***************************************************************************)
(* JavaScript values, tagged by their runtime type.                        *)
(***************************************************************************)
Undefined == [t |-> "undefined", v |-> 0]
Null == [t |-> "null", v |-> 0]
NaN == [t |-> "NaN", v |-> 0]
Bool(b) == [t |-> "boolean", v |-> b]
Num(n) == [t |-> "number", v |-> n]
BigInt(n) == [t |-> "bigint", v |-> n]
Str(s) == [t |-> "string", v |-> s]
Arr(s) == [t |-> "array", v |-> s]
Obj == [t |-> "object", v |-> 0]

\* Truthiness of a Connection State slot: an object is truthy, null and
\* undefined are falsy.
Present(x) == x = Obj

\* Number(x) as used on contract replies: a bigint inside the safe-integer
\* range converts to the number of the same value, undefined converts to NaN.
Number(x) ==
  IF x.t = "bigint" THEN Num(x.v)
  ELSE IF x.t = "number" THEN x
  ELSE NaN

\* a[i] for a JavaScript array (0-based index i): undefined past the end.
JsIndex(a, i) == IF i + 1 \in 1..Len(a) THEN a[i + 1] ELSE Undefined

TokenDetails(tokenId, cidHash) ==
  [t |-> "TokenDetails", v |-> [tokenId |-> tokenId, cidHash |-> cidHash]]

\* !x for the values a contract call can yield.
Falsy(x) ==
  \/ x.t \in {"undefined", "null", "NaN"}
  \/ x.t = "boolean" /\ x.v = FALSE
  \/ x.t \in {"number", "bigint"} /\ x.v = 0
  \/ x.t = "string" /\ x.v = ""

(***************************************************************************)
(* Input domains.                                                          *)
(***************************************************************************)
TokenIds == {1, 2}
Addresses == {"0xA"}
Cids == {"QmA", "QmB"}
Starts == {0, 1}
Counts == {0, 2}
Limits == {10}

BSeq(S, n) == UNION {[1..k -> S] : k \in 0..n}

(***************************************************************************)
(* Connection State and the initializer (lines 8-35).                      *)
(***************************************************************************)
AllAbsent == ~Present(provider) /\ ~Present(signer) /\ ~Present(contract)

Init ==
  /\ hasWallet \in BOOLEAN
  /\ provider = Undefined
  /\ signer = Undefined
  /\ contract = Undefined
  /\ initPc = "load"
  /\ calls = <<>>

\* The catch block and the else branch of the initializer: all three slots
\* are set to null.
InitCollapse ==
  /\ provider' = Null
  /\ signer' = Null
  /\ contract' = Null
  /\ initPc' = "done"

\* Module load: the synchronous prefix of initializeProviderAndSigner, up to
\* the first await (the account request), or the whole else branch.
InitDetect ==
  /\ initPc = "load"
  /\ IF hasWallet
       THEN /\ provider' = Obj
            /\ initPc' = "request"
            /\ UNCHANGED <<signer, contract>>
       ELSE InitCollapse
  /\ UNCHANGED <<hasWallet, calls>>

\* eth_requestAccounts is granted: the initializer resumes and suspends again
\* on provider.getSigner().
InitRequestGranted ==
  /\ initPc = "request"
  /\ initPc' = "signer"
  /\ UNCHANGED <<hasWallet, provider, signer, contract, calls>>

\* eth_requestAccounts is rejected: catch.
InitRequestRejected ==
  /\ initPc = "request"
  /\ InitCollapse
  /\ UNCHANGED <<hasWallet, calls>>

\* provider.getSigner() resolves: signer and contract are bound in the same
\* run.
InitSignerResolved ==
  /\ initPc = "signer"
  /\ signer' = Obj
  /\ contract' = Obj
  /\ initPc' = "done"
  /\ UNCHANGED <<hasWallet, provider, calls>>

\* provider.getSigner() rejects: catch.
InitSignerRejected ==
  /\ initPc = "signer"
  /\ InitCollapse
  /\ UNCHANGED <<hasWallet, calls>>

initializeProviderAndSigner ==
  \/ InitDetect
  \/ InitRequestGranted
  \/ InitRequestRejected
  \/ InitSignerResolved
  \/ InitSignerRejected

(***************************************************************************)
(* Calls of the exported functions.  calls is the history of the calls     *)
(* made so far; each entry is the frame of one call:                       *)
(*   op, args   the function and its arguments                             *)
(*   bound      the contract handle was present when the call started      *)
(*   absent     the Connection State was all-absent when the call started  *)
(*   initAt     position of the initializer when the call started          *)
(*   pc         "call" (awaiting contract?.m(..)), "wait" (awaiting        *)
(*              tx.wait()), "send", "address" (getAccount), "done"         *)
(*   awaiting   "promise" when contract?.m(..) invoked the contract,       *)
(*              "undefined" when the optional chain short-circuited        *)
(*   invoked    the contract methods this call invoked, with arguments     *)
(*   waits      number of tx.wait() calls this call made                   *)
(*   confirmed  number of those waits that resolved                        *)
(*   reply      what the environment delivered (reply value or receipt)    *)
(*   event      what getEvent returned to mintToken                        *)
(*   result     how the call completed                                     *)
(***************************************************************************)
NoResult == [kind |-> "none", v |-> Undefined]
Return(v) == [kind |-> "return", v |-> v]
Throw(msg) == [kind |-> "throw", v |-> Str(msg)]

WriteOps == {"transferToken", "shareToken", "burnToken", "revokeTokenAccess",
             "revokeAllSharedAccess"}
RangeOps == {"getTokensInRange", "getSharedTokensInRange"}
SupplyOps == {"getSupply", "getSharedWithSupply"}
ReadOps == RangeOps \cup SupplyOps \cup
           {"getSharedWithAddresses", "reencrypt", "getMaxUsersToRemove"}

Frame(op, args) ==
  [op |-> op, args |-> args,
   bound |-> Present(contract), absent |-> AllAbsent, initAt |-> initPc,
   pc |-> "call", awaiting |-> "undefined", invoked |-> <<>>,
   waits |-> 0, confirmed |-> 0, reply |-> Undefined, event |-> Undefined,
   result |-> NoResult]

\* contract?.method(margs): the method is invoked only when the handle is
\* not null/undefined; otherwise the expression is undefined.
OptionalCall(f, method, margs) ==
  IF Present(contract)
    THEN [f EXCEPT !.awaiting = "promise",
                   !.invoked = Append(@, [method |-> method, args |-> margs])]
    ELSE [f EXCEPT !.awaiting = "undefined"]

Done(f, result) == [f EXCEPT !.pc = "done", !.result = result]

\* The catch block of each function: what the call completes with when an
\* error reaches it.
Catch(op, msg) ==
  IF op \in WriteOps THEN Return(Bool(FALSE))
  ELSE IF op \in RangeOps \cup {"getSharedWithAddresses", "reencrypt"}
    THEN Return(Arr(<<>>))
  ELSE IF op = "getMaxUsersToRemove" THEN Return(Num(0))
  ELSE IF op = "getAccount" THEN Return(Str(""))
  ELSE Throw(msg)

\* A caller can run only once the module has been evaluated.
CanCall == initPc # "load" /\ Len(calls) < MaxCalls

\* The call's frame after its synchronous prefix joins the history.
Start(f) == calls' = Append(calls, f)

transferToken(to, tokenId) ==
  /\ CanCall
  /\ Start(OptionalCall(Frame("transferToken", <<to, tokenId>>),
                        "transferToken", <<to, tokenId>>))
  /\ UNCHANGED conn

\* shareToken without the emptiness check of its recipient list.
shareTokenUnchecked(to, tokenId) ==
  /\ CanCall
  /\ Start(OptionalCall(Frame("shareToken", <<to, tokenId>>),
                        "shareToken", <<tokenId, to>>))
  /\ UNCHANGED conn

shareToken(to, tokenId) ==
  /\ CanCall
  /\ IF Len(to) = 0
       THEN Start(Done(Frame("shareToken", <<to, tokenId>>),
                       Catch("shareToken", "Recipient list cannot be empty.")))
       ELSE Start(OptionalCall(Frame("shareToken", <<to, tokenId>>),
                               "shareToken", <<tokenId, to>>))
  /\ UNCHANGED conn

burnToken(tokenId, limitNumberOfSharedWith) ==
  /\ CanCall
  /\ Start(OptionalCall(Frame("burnToken", <<tokenId, limitNumberOfSharedWith>>),
                        "burnToken", <<tokenId, limitNumberOfSharedWith>>))
  /\ UNCHANGED conn

revokeTokenAccess(tokenId, userAddress) ==
  /\ CanCall
  /\ Start(OptionalCall(Frame("revokeTokenAccess", <<tokenId, userAddress>>),
                        "revokeTokenAccess", <<tokenId, userAddress>>))
  /\ UNCHANGED conn

revokeAllSharedAccess(tokenId, limitNumberOfSharedWith) ==
  /\ CanCall
  /\ Start(OptionalCall(
             Frame("revokeAllSharedAccess", <<tokenId, limitNumberOfSharedWith>>),
             "revokeAllSharedAccess", <<tokenId, limitNumberOfSharedWith>>))
  /\ UNCHANGED conn

mintToken(cidHash, encryptedFileKey) ==
  /\ CanCall
  /\ Start(OptionalCall(Frame("mintToken", <<cidHash, encryptedFileKey>>),
                        "mintToken", <<cidHash, encryptedFileKey>>))
  /\ UNCHANGED conn

getTokensInRange(start, count) ==
  LET end == start + count IN
  /\ CanCall
  /\ Start(OptionalCall(Frame("getTokensInRange", <<start, count>>),
                        "getTokensInRange", <<start, end>>))
  /\ UNCHANGED conn

getSharedTokensInRange(start, count) ==
  LET end == start + count IN
  /\ CanCall
  /\ Start(OptionalCall(Frame("getSharedTokensInRange", <<start, count>>),
                        "getSharedTokensInRange", <<start, end>>))
  /\ UNCHANGED conn

getSharedWithAddresses(tokenId) ==
  /\ CanCall
  /\ Start(OptionalCall(Frame("getSharedWithAddresses", <<tokenId>>),
                        "getSharedWithAddresses", <<tokenId>>))
  /\ UNCHANGED conn

getSupply ==
  /\ CanCall
  /\ Start(OptionalCall(Frame("getSupply", <<>>), "getSupply", <<>>))
  /\ UNCHANGED conn

getSharedWithSupply ==
  /\ CanCall
  /\ Start(OptionalCall(Frame("getSharedWithSupply", <<>>),
                        "getSharedWithSupply", <<>>))
  /\ UNCHANGED conn

reencrypt(tokenId, publicKey, signature) ==
  /\ CanCall
  /\ Start(OptionalCall(Frame("reencrypt", <<tokenId, publicKey, signature>>),
                        "reencrypt", <<tokenId, publicKey, signature>>))
  /\ UNCHANGED conn

getMaxUsersToRemove ==
  /\ CanCall
  /\ Start(OptionalCall(Frame("getMaxUsersToRemove", <<>>),
                        "MAX_USERS_TO_REMOVE", <<>>))
  /\ UNCHANGED conn

getAccount ==
  /\ CanCall
  /\ IF Present(provider) /\ Present(signer)
       THEN Start([Frame("getAccount", <<>>) EXCEPT !.pc = "send"])
       ELSE Start(Done(Frame("getAccount", <<>>), Return(Str(""))))
  /\ UNCHANGED conn

(***************************************************************************)
(* The environment's side: replies of the contract, receipts and logs.     *)
(***************************************************************************)
\* Events of the contract's interface description, and a topic that is not
\* part of it.
AbiEvents == {"TokenMinted", "Transfer"}
ForeignTopic == "0xforeign"

Logs ==
  {[topic |-> "TokenMinted", args |-> <<BigInt(n)>>] : n \in TokenIds}
    \cup {[topic |-> "Transfer", args |-> <<BigInt(1)>>]}
    \cup {[topic |-> ForeignTopic, args |-> <<>>]}

Receipt(logs) == [t |-> "receipt", logs |-> logs]

Receipts == {Null} \cup {Receipt(l) : l \in BSeq(Logs, MaxLen)}

\* Two-array response of a range query.
RangeResult(tokenIds, cidHashs) ==
  [t |-> "Result", v |-> <<tokenIds, cidHashs>>]

\* The content hash the chain holds for a token.
CidOf(n) == IF n = 1 THEN "QmA" ELSE "QmB"

\* The replies the contract can give to a range query: any list of token ids
\* with the list of their hashes, the latter possibly one entry short (the
\* unchecked length precondition).
RangeReplies ==
  {RangeResult(ids, [i \in 1..(Len(ids) - short) |-> Str(CidOf(ids[i].v))]) :
     ids \in BSeq({BigInt(n) : n \in TokenIds}, MaxLen),
     short \in {0, 1}}

Replies(op) ==
  IF op \in RangeOps THEN RangeReplies
  ELSE IF op \in SupplyOps THEN {BigInt(n) : n \in {0} \cup TokenIds}
  ELSE IF op = "getSharedWithAddresses"
    THEN {Arr(a) : a \in BSeq({Str(x) : x \in Addresses}, 1)}
  ELSE IF op = "reencrypt" THEN {Arr(<<Str("ct")>>)}
  ELSE IF op = "getMaxUsersToRemove" THEN {BigInt(n) : n \in Limits}
  ELSE {Obj}

(***************************************************************************)
(* Event Extractor (lines 65-81).                                          *)
(***************************************************************************)
\* contract?.interface.parseLog(log): undefined without a handle, null for
\* a log whose topic is not in the interface, else the decoded event.
parseLog(c, log) ==
  IF ~Present(c) THEN Undefined
  ELSE IF log.topic \in AbiEvents
    THEN [t |-> "LogDescription", name |-> log.topic, args |-> log.args]
  ELSE Null

\* A scan that keeps the last matching log instead of the first.
RECURSIVE scanLogsLast(_, _, _, _)
scanLogsLast(c, logs, k, eventName) ==
  IF k > Len(logs) THEN Null
  ELSE LET later == scanLogsLast(c, logs, k + 1, eventName)
           event == parseLog(c, logs[k]) IN
       IF later.t = "LogDescription" THEN later
       ELSE IF event.t = "LogDescription" /\ event.name = eventName
         THEN event
       ELSE Null

RECURSIVE scanLogs(_, _, _, _)
scanLogs(c, logs, k, eventName) ==
  IF k > Len(logs) THEN Null
  ELSE LET event == parseLog(c, logs[k]) IN
       IF event.t = "LogDescription" /\ event.name = eventName
         THEN event
         ELSE scanLogs(c, logs, k + 1, eventName)

\* The part of getEvent after the receipt is obtained.
getEvent(c, receipt, eventName) ==
  IF receipt.t = "receipt"
    THEN scanLogs(c, receipt.logs, 1, eventName)
    ELSE Null

(***************************************************************************)
(* Resumption of a call after each await.                                  *)
(***************************************************************************)
\* A zip that pairs each token id with the hash one position later.
zipTokensShifted(tokenIds, cidHashs) ==
  [i \in 1..Len(tokenIds) |->
     TokenDetails(tokenIds[i], JsIndex(cidHashs, i))]

\* tokenIds.map((tokenId, index) => ({tokenId, cidHash: cidHashs[index]}))
zipTokens(tokenIds, cidHashs) ==
  [i \in 1..Len(tokenIds) |->
     TokenDetails(tokenIds[i], JsIndex(cidHashs, i - 1))]

\* tx.wait() started but not awaited: success is reported at once.
WaitOnNotAwaited(f, tx) ==
  IF tx = Undefined
    THEN Done(f, Catch(f.op, "TypeError"))
    ELSE Done([f EXCEPT !.waits = @ + 1], Return(Bool(TRUE)))

\* tx.wait() on the awaited transaction handle; a TypeError when the handle
\* is undefined.
WaitOn(f, tx) ==
  IF tx = Undefined
    THEN Done(f, Catch(f.op, "TypeError"))
    ELSE [f EXCEPT !.pc = "wait", !.waits = @ + 1]

\* The code that runs when `await contract?.m(..)` yields v.
AfterCall(f, v) ==
  IF f.op \in WriteOps \cup {"mintToken"} THEN WaitOn(f, v)
  ELSE IF f.op \in RangeOps
    THEN IF v = Undefined
           THEN Done(f, Catch(f.op, "TypeError"))
           ELSE Done(f, Return(Arr(zipTokens(v.v[1], v.v[2]))))
  ELSE IF f.op \in SupplyOps THEN Done(f, Return(Number(v)))
  ELSE IF f.op = "reencrypt"
    THEN IF Falsy(v) THEN Done(f, Return(Arr(<<>>))) ELSE Done(f, Return(v))
  ELSE Done(f, Return(v))

\* mintToken reading the event through optional chaining and without the
\* not-found check: a missing event yields a TokenDetails with tokenId NaN.
AfterWaitLenient(f, receipt) ==
  IF f.op \in WriteOps
    THEN Done([f EXCEPT !.confirmed = @ + 1], Return(Bool(TRUE)))
    ELSE LET tokenMintedEvent == getEvent(contract, receipt, "TokenMinted")
             g == [f EXCEPT !.confirmed = @ + 1, !.reply = receipt,
                            !.event = tokenMintedEvent] IN
         IF tokenMintedEvent.t # "LogDescription"
           THEN Done(g, Return(TokenDetails(NaN, Str(f.args[1]))))
           ELSE Done(g, Return(TokenDetails(Number(tokenMintedEvent.args[1]),
                                            Str(f.args[1]))))

\* The code that runs when `await tx.wait()` yields the receipt.
AfterWait(f, receipt) ==
  IF f.op \in WriteOps
    THEN Done([f EXCEPT !.confirmed = @ + 1], Return(Bool(TRUE)))
    ELSE LET tokenMintedEvent == getEvent(contract, receipt, "TokenMinted")
             g == [f EXCEPT !.confirmed = @ + 1, !.reply = receipt,
                            !.event = tokenMintedEvent] IN
         IF tokenMintedEvent.t # "LogDescription"
           THEN Done(g, Catch(f.op, "TokenMinted event not found."))
           ELSE Done(g, Return(TokenDetails(Number(tokenMintedEvent.args[1]),
                                            Str(f.args[1]))))

Resume(i, f) ==
  /\ calls' = [calls EXCEPT ![i] = f]
  /\ UNCHANGED conn

CallIds == 1..Len(calls)

\* `await undefined`: the optional chain short-circuited.
CallShortCircuit(i) ==
  /\ i \in CallIds
  /\ calls[i].pc = "call"
  /\ calls[i].awaiting = "undefined"
  /\ Resume(i, AfterCall(calls[i], Undefined))

\* The contract call's promise is fulfilled with one of the values the
\* method can yield.
CallFulfilled(i) ==
  /\ i \in CallIds
  /\ calls[i].pc = "call"
  /\ calls[i].awaiting = "promise"
  /\ \E v \in Replies(calls[i].op) :
       Resume(i, AfterCall([calls[i] EXCEPT !.reply = v], v))

\* The contract call's promise is rejected (transport error, revert).
CallRejected(i) ==
  /\ i \in CallIds
  /\ calls[i].pc = "call"
  /\ calls[i].awaiting = "promise"
  /\ Resume(i, Done(calls[i], Catch(calls[i].op, "CallFailed")))

WaitFulfilled(i, receipt) ==
  /\ i \in CallIds
  /\ calls[i].pc = "wait"
  /\ Resume(i, AfterWait(calls[i], receipt))

WaitRejected(i) ==
  /\ i \in CallIds
  /\ calls[i].pc = "wait"
  /\ Resume(i, Done(calls[i], Catch(calls[i].op, "WaitFailed")))

\* getAccount: provider.send("eth_requestAccounts") settles.
SendFulfilled(i) ==
  /\ i \in CallIds
  /\ calls[i].pc = "send"
  /\ IF Present(signer)
       THEN Resume(i, [calls[i] EXCEPT !.pc = "address"])
       ELSE Resume(i, Done(calls[i], Catch("getAccount", "TypeError")))

SendRejected(i) ==
  /\ i \in CallIds
  /\ calls[i].pc = "send"
  /\ Resume(i, Done(calls[i], Catch("getAccount", "SendFailed")))

\* getAccount: signer.getAddress() settles.
AddressFulfilled(i, account) ==
  /\ i \in CallIds
  /\ calls[i].pc = "address"
  /\ IF account = ""
       THEN Resume(i, Done(calls[i], Return(Str(""))))
       ELSE Resume(i, Done(calls[i], Return(Str(account))))

AddressRejected(i) ==
  /\ i \in CallIds
  /\ calls[i].pc = "address"
  /\ Resume(i, Done(calls[i], Catch("getAccount", "AddressFailed")))

(***************************************************************************)
(* Next-state relation.                                                    *)
(***************************************************************************)
Recipients == BSeq(Addresses, 1)

Invoke ==
  \/ \E to \in Addresses, tokenId \in TokenIds : transferToken(to, tokenId)
  \/ \E to \in Recipients, tokenId \in TokenIds : shareToken(to, tokenId)
  \/ \E tokenId \in TokenIds, n \in Limits : burnToken(tokenId, n)
  \/ \E tokenId \in TokenIds, a \in Addresses : revokeTokenAccess(tokenId, a)
  \/ \E tokenId \in TokenIds, n \in Limits :
       revokeAllSharedAccess(tokenId, n)
  \/ \E cidHash \in Cids : mintToken(cidHash, <<"key">>)
  \/ \E start \in Starts, count \in Counts :
       getTokensInRange(start, count)
  \/ \E start \in Starts, count \in Counts :
       getSharedTokensInRange(start, count)
  \/ \E tokenId \in TokenIds : getSharedWithAddresses(tokenId)
  \/ getSupply
  \/ getSharedWithSupply
  \/ \E tokenId \in TokenIds : reencrypt(tokenId, "pk", "sig")
  \/ getMaxUsersToRemove
  \/ getAccount

Slots == 1..MaxCalls

Settle ==
  \/ \E i \in Slots : CallShortCircuit(i)
  \/ \E i \in Slots : CallFulfilled(i)
  \/ \E i \in Slots : CallRejected(i)
  \/ \E i \in Slots, receipt \in Receipts : WaitFulfilled(i, receipt)
  \/ \E i \in Slots : WaitRejected(i)
  \/ \E i \in Slots : SendFulfilled(i)
  \/ \E i \in Slots : SendRejected(i)
  \/ \E i \in Slots, account \in Addresses \cup {""} :
       AddressFulfilled(i, account)
  \/ \E i \in Slots : AddressRejected(i)

Next ==
  \/ initializeProviderAndSigner
  \/ Invoke
  \/ Settle

Spec == Init /\ [][Next]_vars

(***************************************************************************)
(* Properties.                                                             *)
(***************************************************************************)
IsDone(f) == f.pc = "done"

\* The failure result the per-operation table documents for an operation
\* that converts failures to a default value.
DefaultFailure(op) ==
  IF op \in WriteOps THEN Bool(FALSE)
  ELSE IF op = "getMaxUsersToRemove" THEN Num(0)
  ELSE Arr(<<>>)

DefaultingOps ==
  WriteOps \cup RangeOps \cup
    {"getSharedWithAddresses", "reencrypt", "getMaxUsersToRemove"}

RethrowingOps == SupplyOps \cup {"mintToken"}

\* C1: a call of an operation with a documented default failure value that
\* starts while the Connection State is all-absent completes by returning
\* exactly that default value.
C1_DefaultWhenAbsent ==
  \A i \in CallIds :
    LET f == calls[i] IN
    (f.absent /\ f.op \in DefaultingOps /\ IsDone(f))
      => f.result = Return(DefaultFailure(f.op))

\* C2: in every reachable state provider, signer and contract are all three
\* present or all three absent.
C2_AllOrNothing ==
  \/ Present(provider) /\ Present(signer) /\ Present(contract)
  \/ AllAbsent

\* C3: a shareToken call with an empty recipient list completes by raising
\* an error to its caller, never by returning a value.
C3_EmptyShareRaises ==
  \A i \in CallIds :
    LET f == calls[i] IN
    (f.op = "shareToken" /\ Len(f.args[1]) = 0 /\ IsDone(f))
      => f.result.kind = "throw"

\* C4: a shareToken call with an empty recipient list never invokes a
\* contract method and never waits on a transaction, whether the contract
\* handle is present or absent.
C4_EmptyShareNoCall ==
  \A i \in CallIds :
    LET f == calls[i] IN
    (f.op = "shareToken" /\ Len(f.args[1]) = 0)
      => f.invoked = <<>> /\ f.waits = 0

C4_Witness ==
  \E i \in CallIds :
    LET f == calls[i] IN
    /\ f.op = "shareToken"
    /\ Len(f.args[1]) = 0
    /\ f.bound
    /\ IsDone(f)

HasTokenMinted(receipt) ==
  /\ receipt.t = "receipt"
  /\ \E k \in 1..Len(receipt.logs) : receipt.logs[k].topic = "TokenMinted"

\* C5: a mintToken call whose transaction confirmed with a receipt holding
\* no TokenMinted log raises; a mintToken call returns only when a
\* TokenMinted event was found, and then returns the event's first argument
\* as tokenId together with the cidHash it was given.
C5_MintNeedsEvent ==
  \A i \in CallIds :
    LET f == calls[i] IN
    (f.op = "mintToken" /\ IsDone(f)) =>
      /\ (f.confirmed = 1 /\ ~HasTokenMinted(f.reply))
           => f.result.kind = "throw"
      /\ f.result.kind = "return" =>
           /\ f.confirmed = 1
           /\ HasTokenMinted(f.reply)
           /\ f.event.t = "LogDescription"
           /\ f.event.name = "TokenMinted"
           /\ f.result.v.t = "TokenDetails"
           /\ f.result.v.v.tokenId.t = "number"
           /\ f.result.v.v.tokenId.v = f.event.args[1].v
           /\ f.result.v.v.cidHash = Str(f.args[1])

C5_Witness ==
  \E i \in CallIds :
    LET f == calls[i] IN
    /\ f.op = "mintToken"
    /\ IsDone(f)
    /\ f.confirmed = 1
    /\ f.reply.t = "receipt"
    /\ Len(f.reply.logs) > 0
    /\ ~HasTokenMinted(f.reply)
    /\ f.result.kind = "throw"

\* event is what a first-match search for eventName in the receipt's logs
\* must yield: the decoded log of lowest index carrying that name, or null.
IsFirstMatch(receipt, eventName, event) ==
  IF /\ receipt.t = "receipt"
     /\ \E k \in 1..Len(receipt.logs) : receipt.logs[k].topic = eventName
    THEN \E k \in 1..Len(receipt.logs) :
           /\ receipt.logs[k].topic = eventName
           /\ \A j \in 1..(k - 1) : receipt.logs[j].topic # eventName
           /\ event.t = "LogDescription"
           /\ event.name = eventName
           /\ event.args = receipt.logs[k].args
    ELSE event = Null

\* C6: once the receipt is obtained, getEvent yields the decoded event of
\* the lowest-index log whose decoded name is the requested one, skipping
\* logs of other names and logs that do not decode, and yields null when no
\* log matches or the receipt has no logs.
C6_FirstMatchingLog ==
  \A i \in CallIds :
    LET f == calls[i] IN
    (f.op = "mintToken" /\ f.confirmed = 1) =>
      /\ IsFirstMatch(f.reply, "TokenMinted", f.event)
      /\ f.event = Null => f.result = Throw("TokenMinted event not found.")
      /\ \A eventName \in AbiEvents :
           IsFirstMatch(f.reply, eventName,
                        getEvent(contract, f.reply, eventName))

C6_Witness ==
  \E i \in CallIds :
    LET f == calls[i] IN
    /\ f.op = "mintToken"
    /\ f.confirmed = 1
    /\ f.reply.t = "receipt"
    /\ Len(f.reply.logs) = 2
    /\ f.reply.logs[1].topic = ForeignTopic
    /\ f.reply.logs[2].topic = "TokenMinted"
    /\ f.event.t = "LogDescription"
    /\ f.event.args = f.reply.logs[2].args

\* C7: mintToken, getSupply and getSharedWithSupply never complete by
\* returning a value when there was no bound contract handle or the
\* contract call failed.
C7_RethrowOnEveryFailure ==
  \A i \in CallIds :
    LET f == calls[i] IN
    (f.op \in RethrowingOps /\ IsDone(f) /\ f.result.kind = "return")
      => f.bound /\ f.reply # Undefined

\* C8: a write operation invokes its contract method at most once; it
\* completes only by returning a boolean; it returns true only after its
\* own transaction was submitted and the wait on it resolved; and it
\* returns false when the submission or the wait did not succeed.
C8_WriteConfirmsOnce ==
  \A i \in CallIds :
    LET f == calls[i] IN
    f.op \in WriteOps =>
      /\ Len(f.invoked) <= 1
      /\ f.waits <= 1
      /\ \A k \in 1..Len(f.invoked) : f.invoked[k].method = f.op
      /\ IsDone(f) => f.result \in {Return(Bool(TRUE)), Return(Bool(FALSE))}
      /\ f.result = Return(Bool(TRUE)) =>
           Len(f.invoked) = 1 /\ f.waits = 1 /\ f.confirmed = 1
      /\ (IsDone(f) /\ f.confirmed = 0) => f.result = Return(Bool(FALSE))

C8_Witness ==
  \E i \in CallIds :
    LET f == calls[i] IN
    /\ f.op \in WriteOps
    /\ IsDone(f)
    /\ f.confirmed = 1
    /\ f.result = Return(Bool(TRUE))

\* C9: a range query passes (start, start + count) to the contract method
\* of its own name, and on a two-array reply returns as many TokenDetails as
\* there are token ids, the i-th one pairing the i-th token id with the
\* i-th hash.
C9_RangePairsByPosition ==
  \A i \in CallIds :
    LET f == calls[i] IN
    f.op \in RangeOps =>
      /\ f.bound =>
           f.invoked = <<[method |-> f.op,
                          args |-> <<f.args[1], f.args[1] + f.args[2]>>]>>
      /\ (IsDone(f) /\ f.reply.t = "Result") =>
           LET tokenIds == f.reply.v[1]
               cidHashs == f.reply.v[2] IN
           /\ f.result.kind = "return"
           /\ f.result.v.t = "array"
           /\ Len(f.result.v.v) = Len(tokenIds)
           /\ \A k \in 1..Len(tokenIds) :
                /\ f.result.v.v[k].v.tokenId = tokenIds[k]
                /\ f.result.v.v[k].v.cidHash =
                     (IF k <= Len(cidHashs) THEN cidHashs[k] ELSE Undefined)

C9_Witness ==
  \E i \in CallIds :
    LET f == calls[i] IN
    /\ f.op \in RangeOps
    /\ IsDone(f)
    /\ f.reply.t = "Result"
    /\ Len(f.reply.v[1]) = 2
    /\ Len(f.reply.v[2]) = 2
    /\ f.reply.v[1][1] # f.reply.v[1][2]
    /\ Len(f.result.v.v) = 2

\* The failure outcome of an operation: its default value, '' for
\* getAccount, a thrown error for the operations that re-throw.
IsFailureOutcome(op, result) ==
  IF op \in RethrowingOps THEN result.kind = "throw"
  ELSE IF op = "getAccount" THEN result = Return(Str(""))
  ELSE result = Return(DefaultFailure(op))

\* C10: a call started while the initializer is still suspended makes no
\* contract call and ends in its failure outcome; only calls started with
\* the handle bound invoke the contract.
C10_NoWaitForInit ==
  \A i \in CallIds :
    LET f == calls[i] IN
    /\ f.invoked # <<>> => f.bound
    /\ f.initAt \in {"request", "signer"} =>
         /\ f.invoked = <<>>
         /\ IsDone(f) => IsFailureOutcome(f.op, f.result)
====
